---- MODULE Spec2Model ----
(***************************************************************************)
(* Collaborative Canvas: the authority's per-room drawing state            *)
(* (DrawingStateManager), the room registry (RoomManager), the socket      *)
(* handlers of the server and the canvas of each client.                   *)
(*                                                                         *)
(* An optional value (a field that may be undefined, a result that may be  *)
(* null) is a sequence of length at most one: <<>> is absent, <<v>> is v.  *)
(***************************************************************************)
EXTENDS Integers, Sequences, FiniteSets, TLC

\* ------------------------------------------------------------------ bounds

\* Allocations of DrawingOperation objects explored per DrawingStateManager.
MaxOps == 3

\* Gestures (mousedown ... mouseup) made, all clients together.
MaxGestures == 1

\* Points a gesture collects before it ends.
MaxPoints == 2

\* Clicks on the undo, redo and clear buttons, all clients together.
MaxClicks == 2

\* DrawingOperations allocated through direct calls of the RoomManager.
MaxRegOps == 2

\* Packets that reach the server from clients that send what they like.
MaxMsgs == 5

\* ------------------------------------------------------------- input domains

Users == {"A", "B"}

StrokeIds == {"s1", "s2", "s3"}

\* Readings of the millisecond clock (Date.now()).
Times == {0, 1}

\* Stroke.timestamp is the client's Date.now() at the start of the gesture;
\* the values tie (s1, s3) and run against the id order (s2 before s1).
CreatedAt(id) == IF id = "s2" THEN 0 ELSE 1

P0 == [x |-> 0, y |-> 0]

P1 == [x |-> 5, y |-> 5]

\* Stroke (canvas.ts): the strokes handed to DrawingStateManager.addStroke.
Stroke(id, userId, points, timestamp) ==
  [id |-> id, userId |-> userId, points |-> points, color |-> "#000000",
   width |-> 5, tool |-> "brush", timestamp |-> timestamp]

\* s1 comes from either actor (one id, two different strokes), s2 and s3
\* from one actor each.
StrokeInputs ==
  {Stroke(id, u, <<P0, P1>>, CreatedAt(id)) : id \in {"s1"}, u \in Users}
    \cup {Stroke("s2", "B", <<P0, P1>>, CreatedAt("s2")),
          Stroke("s3", "A", <<P0, P1>>, CreatedAt("s3"))}

\* ------------------------------------------------------------ JS containers

\* A Map<string, Stroke> is the sequence of its entries in insertion order.
MapHas(m, k) == \E i \in 1..Len(m) : m[i].k = k

MapGet(m, k) ==
  IF MapHas(m, k) THEN <<(CHOOSE e \in {m[i] : i \in 1..Len(m)} : e.k = k).v>>
  ELSE <<>>

\* Map.set keeps the position of an existing key and appends a new one.
MapSet(m, k, v) ==
  IF MapHas(m, k)
  THEN [i \in 1..Len(m) |-> IF m[i].k = k THEN [k |-> k, v |-> v] ELSE m[i]]
  ELSE Append(m, [k |-> k, v |-> v])

MapDelete(m, k) == SelectSeq(m, LAMBDA e : e.k # k)

MapKeys(m) == {m[i].k : i \in 1..Len(m)}

MapValues(m) == [i \in 1..Len(m) |-> m[i].v]

\* The mapping a Map denotes, whatever its insertion order.
MapEntries(m) == {m[i] : i \in 1..Len(m)}

\* Array.prototype.slice(-n): the last n elements.
SliceLast(s, n) == IF Len(s) <= n THEN s ELSE SubSeq(s, Len(s) - n + 1, Len(s))

\* Array.prototype.pop leaves the array without its last element.
Front(s) == SubSeq(s, 1, Len(s) - 1)

Last(s) == s[Len(s)]

\* ------------------------------------------------------ DrawingStateManager

\* maxHistorySize is 1000 in the source; the model keeps the same trimming
\* rule with a cap small enough for the trim to happen within MaxOps calls.
maxHistorySize == 2

\* A DrawingOperation. ref is the identity of the object (two operations
\* with equal fields are still two objects).
Operation(type, stroke, strokeId, timestamp, userId, ref) ==
  [type |-> type, stroke |-> stroke, strokeId |-> strokeId,
   timestamp |-> timestamp, userId |-> userId, ref |-> ref]

\* new DrawingStateManager()
createDrawingStateManager ==
  [strokes |-> <<>>, operationHistory |-> <<>>, redoStack |-> <<>>]

\* addStroke trimming with slice(0, maxHistorySize): keeps the oldest entries.
addStroke_keepOldest(d, stroke, t, ref) ==
  LET operation == Operation("add", <<stroke>>, <<>>, t, stroke.userId, ref)
      pushed == Append(d.operationHistory, operation)
  IN  [strokes |-> MapSet(d.strokes, stroke.id, stroke),
       operationHistory |->
         IF Len(pushed) > maxHistorySize
         THEN SubSeq(pushed, 1, maxHistorySize) ELSE pushed,
       redoStack |-> <<>>]

addStroke(d, stroke, t, ref) ==
  LET operation == Operation("add", <<stroke>>, <<>>, t, stroke.userId, ref)
      pushed == Append(d.operationHistory, operation)
  IN  [strokes |-> MapSet(d.strokes, stroke.id, stroke),
       operationHistory |->
         IF Len(pushed) > maxHistorySize
         THEN SliceLast(pushed, maxHistorySize) ELSE pushed,
       redoStack |-> <<>>]

\* removeStroke without "this.redoStack = []".
removeStroke_resetsRedo(d, strokeId, userId, t, ref) ==
  IF MapGet(d.strokes, strokeId) = <<>>
  THEN [d |-> [d EXCEPT !.redoStack = <<>>], ret |-> <<FALSE>>]
  ELSE LET operation == Operation("remove", <<>>, <<strokeId>>, t, userId, ref)
       IN  [d |-> [strokes |-> MapDelete(d.strokes, strokeId),
                   operationHistory |-> Append(d.operationHistory, operation),
                   redoStack |-> <<>>],
            ret |-> <<TRUE>>]

removeStroke_keepRedo(d, strokeId, userId, t, ref) ==
  IF MapGet(d.strokes, strokeId) = <<>>
  THEN [d |-> d, ret |-> <<FALSE>>]
  ELSE LET operation == Operation("remove", <<>>, <<strokeId>>, t, userId, ref)
       IN  [d |-> [strokes |-> MapDelete(d.strokes, strokeId),
                   operationHistory |-> Append(d.operationHistory, operation),
                   redoStack |-> d.redoStack],
            ret |-> <<TRUE>>]

removeStroke(d, strokeId, userId, t, ref) ==
  IF MapGet(d.strokes, strokeId) = <<>>
  THEN [d |-> d, ret |-> <<FALSE>>]
  ELSE LET operation == Operation("remove", <<>>, <<strokeId>>, t, userId, ref)
       IN  [d |-> [strokes |-> MapDelete(d.strokes, strokeId),
                   operationHistory |-> Append(d.operationHistory, operation),
                   redoStack |-> <<>>],
            ret |-> <<TRUE>>]

\* clear without "this.strokes.clear()".
clear_keepStrokes(d, userId, t, ref) ==
  LET operation == Operation("clear", <<>>, <<>>, t, userId, ref)
  IN  [strokes |-> d.strokes,
       operationHistory |-> Append(d.operationHistory, operation),
       redoStack |-> <<>>]

clear(d, userId, t, ref) ==
  LET operation == Operation("clear", <<>>, <<>>, t, userId, ref)
  IN  [strokes |-> <<>>,
       operationHistory |-> Append(d.operationHistory, operation),
       redoStack |-> <<>>]

getStroke(d, strokeId) == MapGet(d.strokes, strokeId)

\* The strokes an undo of lastOperation leaves (the switch of undo).
undoEffect(d, lastOperation) ==
  CASE lastOperation.type = "add" ->
         IF lastOperation.stroke # <<>>
         THEN MapDelete(d.strokes, lastOperation.stroke[1].id)
         ELSE d.strokes
    [] lastOperation.type = "remove" ->
         IF lastOperation.strokeId # <<>> /\ lastOperation.stroke # <<>>
         THEN MapSet(d.strokes, lastOperation.strokeId[1], lastOperation.stroke[1])
         ELSE d.strokes
    [] lastOperation.type = "clear" -> d.strokes

\* A per-actor undo: pops the most recent operation of userId.
undo_perActor(d, userId) ==
  LET own == {i \in 1..Len(d.operationHistory) :
                d.operationHistory[i].userId = userId}
  IN  IF own = {}
      THEN [d |-> d, ret |-> <<>>]
      ELSE LET i == CHOOSE j \in own : \A k \in own : k <= j
               lastOperation == d.operationHistory[i]
           IN  [d |-> [strokes |-> undoEffect(d, lastOperation),
                       operationHistory |->
                         SubSeq(d.operationHistory, 1, i - 1) \o
                         SubSeq(d.operationHistory, i + 1,
                                Len(d.operationHistory)),
                       redoStack |-> Append(d.redoStack, lastOperation)],
                ret |-> <<lastOperation>>]

\* An undo that reads the last operation without popping it.
undo_noPop(d, userId) ==
  IF Len(d.operationHistory) = 0
  THEN [d |-> d, ret |-> <<>>]
  ELSE LET lastOperation == Last(d.operationHistory)
       IN  [d |-> [strokes |-> undoEffect(d, lastOperation),
                   operationHistory |-> d.operationHistory,
                   redoStack |-> Append(d.redoStack, lastOperation)],
            ret |-> <<lastOperation>>]

\* An undo that restores nothing yet forgets the operation it popped.
undo_dropOp(d, userId) ==
  IF Len(d.operationHistory) = 0
  THEN [d |-> d, ret |-> <<>>]
  ELSE LET lastOperation == Last(d.operationHistory)
       IN  [d |-> [strokes |-> undoEffect(d, lastOperation),
                   operationHistory |-> Front(d.operationHistory),
                   redoStack |-> d.redoStack],
            ret |-> <<lastOperation>>]

undo(d, userId) ==
  IF Len(d.operationHistory) = 0
  THEN [d |-> d, ret |-> <<>>]
  ELSE LET lastOperation == Last(d.operationHistory)
       IN  [d |-> [strokes |-> undoEffect(d, lastOperation),
                   operationHistory |-> Front(d.operationHistory),
                   redoStack |-> Append(d.redoStack, lastOperation)],
            ret |-> <<lastOperation>>]

\* A redo whose "add" case does not put the stroke back.
redo_noReinsert(d, userId) ==
  IF Len(d.redoStack) = 0
  THEN [d |-> d, ret |-> <<>>]
  ELSE LET lastUndone == Last(d.redoStack)
           strokes1 ==
             CASE lastUndone.type = "add" -> d.strokes
               [] lastUndone.type = "remove" ->
                    IF lastUndone.strokeId # <<>>
                    THEN MapDelete(d.strokes, lastUndone.strokeId[1])
                    ELSE d.strokes
               [] lastUndone.type = "clear" -> <<>>
       IN  [d |-> [strokes |-> strokes1,
                   operationHistory |-> Append(d.operationHistory, lastUndone),
                   redoStack |-> Front(d.redoStack)],
            ret |-> <<lastUndone>>]

\* A redo that leaves the operation on the redoStack.
redo_noPop(d, userId) ==
  IF Len(d.redoStack) = 0
  THEN [d |-> d, ret |-> <<>>]
  ELSE LET lastUndone == Last(d.redoStack)
           strokes1 ==
             CASE lastUndone.type = "add" ->
                    IF lastUndone.stroke # <<>>
                    THEN MapSet(d.strokes, lastUndone.stroke[1].id,
                                lastUndone.stroke[1])
                    ELSE d.strokes
               [] lastUndone.type = "remove" ->
                    IF lastUndone.strokeId # <<>>
                    THEN MapDelete(d.strokes, lastUndone.strokeId[1])
                    ELSE d.strokes
               [] lastUndone.type = "clear" -> <<>>
       IN  [d |-> [strokes |-> strokes1,
                   operationHistory |-> Append(d.operationHistory, lastUndone),
                   redoStack |-> d.redoStack],
            ret |-> <<lastUndone>>]

redo(d, userId) ==
  IF Len(d.redoStack) = 0
  THEN [d |-> d, ret |-> <<>>]
  ELSE LET lastUndone == Last(d.redoStack)
           strokes1 ==
             CASE lastUndone.type = "add" ->
                    IF lastUndone.stroke # <<>>
                    THEN MapSet(d.strokes, lastUndone.stroke[1].id,
                                lastUndone.stroke[1])
                    ELSE d.strokes
               [] lastUndone.type = "remove" ->
                    IF lastUndone.strokeId # <<>>
                    THEN MapDelete(d.strokes, lastUndone.strokeId[1])
                    ELSE d.strokes
               [] lastUndone.type = "clear" -> <<>>
       IN  [d |-> [strokes |-> strokes1,
                   operationHistory |-> Append(d.operationHistory, lastUndone),
                   redoStack |-> Front(d.redoStack)],
            ret |-> <<lastUndone>>]

\* Array.prototype.sort((a, b) => a.timestamp - b.timestamp), which is stable:
\* each element goes after the elements whose timestamp is not greater.
RECURSIVE SortByTimestamp(_)
SortByTimestamp(ss) ==
  IF ss = <<>> THEN <<>>
  ELSE LET sorted == SortByTimestamp(Front(ss))
           x == Last(ss)
           keep == {i \in 1..Len(sorted) : sorted[i].timestamp <= x.timestamp}
           n == Cardinality(keep)
       IN  SubSeq(sorted, 1, n) \o <<x>> \o SubSeq(sorted, n + 1, Len(sorted))

getAllStrokes_insertionOrder(d) == MapValues(d.strokes)

getAllStrokes(d) == SortByTimestamp(MapValues(d.strokes))

getState(d) == [strokes |-> getAllStrokes(d)]

cleanupOldStrokes_atLeast(d, maxAge, t) ==
  LET old(e) == t - e.v.timestamp >= maxAge
  IN  [d |-> [d EXCEPT !.strokes = SelectSeq(@, LAMBDA e : ~old(e))],
       ret |-> Len(SelectSeq(d.strokes, old))]

\* t is Date.now(); the result is removedCount.
cleanupOldStrokes(d, maxAge, t) ==
  LET old(e) == t - e.v.timestamp > maxAge
  IN  [d |-> [d EXCEPT !.strokes = SelectSeq(@, LAMBDA e : ~old(e))],
       ret |-> Len(SelectSeq(d.strokes, old))]

\* -------------------------------------------------------------- RoomManager

\* Room ids are non-empty strings; "default" is the room of the bundled client.
RoomIds == {"default", "studio"}

\* The sockets; socket.id is the userId the authority records.
Sockets == Users

\* Map.set on a Map that is never iterated: a function.
Put(f, k, v) == [x \in DOMAIN f \cup {k} |-> IF x = k THEN v ELSE f[x]]

\* new RoomManager(): rooms and userRooms; rm is the pair of the two Maps.
createRoomManager == [rooms |-> <<>>, userRooms |-> <<>>]

joinRoom(rm, userId, roomId, color, name) ==
  LET rooms1 == IF roomId \in DOMAIN rm.rooms THEN rm.rooms
                ELSE Put(rm.rooms, roomId,
                         [state |-> createDrawingStateManager, users |-> <<>>])
      room == rooms1[roomId]
      users1 == IF \E i \in 1..Len(room.users) : room.users[i].id = userId
                THEN room.users
                ELSE Append(room.users,
                            [id |-> userId, color |-> color, name |-> name])
  IN  [rooms |-> [rooms1 EXCEPT ![roomId].users = users1],
       userRooms |-> Put(rm.userRooms, userId, roomId)]

RoomManager_addStroke_create(rm, roomId, stroke, t, ref) ==
  LET rooms1 == IF roomId \in DOMAIN rm.rooms THEN rm.rooms
                ELSE Put(rm.rooms, roomId,
                         [state |-> createDrawingStateManager, users |-> <<>>])
  IN  [rm EXCEPT !.rooms =
         [rooms1 EXCEPT ![roomId].state = addStroke(@, stroke, t, ref)]]

RoomManager_addStroke(rm, roomId, stroke, t, ref) ==
  IF roomId \in DOMAIN rm.rooms
  THEN [rm EXCEPT !.rooms[roomId].state = addStroke(@, stroke, t, ref)]
  ELSE rm

RoomManager_undo(rm, roomId, userId) ==
  IF roomId \in DOMAIN rm.rooms
  THEN [rm EXCEPT !.rooms[roomId].state = undo(@, userId).d]
  ELSE rm

RoomManager_redo(rm, roomId, userId) ==
  IF roomId \in DOMAIN rm.rooms
  THEN [rm EXCEPT !.rooms[roomId].state = redo(@, userId).d]
  ELSE rm

clearRoom(rm, roomId, userId, t, ref) ==
  IF roomId \in DOMAIN rm.rooms
  THEN [rm EXCEPT !.rooms[roomId].state = clear(@, userId, t, ref)]
  ELSE rm

getRoomUsers(rm, roomId) ==
  IF roomId \in DOMAIN rm.rooms THEN rm.rooms[roomId].users ELSE <<>>

getRoomState_noRoom(rm, roomId) == [strokes |-> <<>>]

getRoomState(rm, roomId) ==
  IF roomId \in DOMAIN rm.rooms THEN getState(rm.rooms[roomId].state)
  ELSE [strokes |-> <<>>]

\* string | undefined
getUserRoom(rm, userId) ==
  IF userId \in DOMAIN rm.userRooms THEN <<rm.userRooms[userId]>> ELSE <<>>

\* Map.delete on a Map that is never iterated.
Drop(f, k) == [x \in DOMAIN f \ {k} |-> f[x]]

leaveRoom_keepEmpty(rm, userId) ==
  IF userId \in DOMAIN rm.userRooms
  THEN LET roomId == rm.userRooms[userId]
       IN  [rooms |-> IF roomId \in DOMAIN rm.rooms
                      THEN [rm.rooms EXCEPT ![roomId].users =
                              SelectSeq(@, LAMBDA u : u.id # userId)]
                      ELSE rm.rooms,
            userRooms |-> Drop(rm.userRooms, userId)]
  ELSE rm

leaveRoom(rm, userId) ==
  IF userId \in DOMAIN rm.userRooms
  THEN LET roomId == rm.userRooms[userId]
           users1 == SelectSeq(rm.rooms[roomId].users,
                               LAMBDA u : u.id # userId)
       IN  [rooms |-> IF roomId \in DOMAIN rm.rooms
                      THEN IF Len(users1) = 0
                           THEN Drop(rm.rooms, roomId)
                           ELSE [rm.rooms EXCEPT ![roomId].users = users1]
                      ELSE rm.rooms,
            userRooms |-> Drop(rm.userRooms, userId)]
  ELSE rm

\* string | null
getUserIdByStroke(rm, roomId, strokeId) ==
  IF roomId \in DOMAIN rm.rooms
  THEN LET stroke == getStroke(rm.rooms[roomId].state, strokeId)
       IN  IF stroke = <<>> THEN <<>> ELSE <<stroke[1].userId>>
  ELSE <<>>

RoomManager_removeStroke(rm, roomId, strokeId, t, ref) ==
  IF roomId \in DOMAIN rm.rooms
  THEN LET userId == getUserIdByStroke(rm, roomId, strokeId)
           actor == IF userId = <<>> THEN "unknown" ELSE userId[1]
       IN  [rm EXCEPT !.rooms[roomId].state =
                        removeStroke(@, strokeId, actor, t, ref).d]
  ELSE rm

RECURSIVE SumPoints(_)
SumPoints(strokes) ==
  IF strokes = <<>> THEN 0
  ELSE Len(Head(strokes).points) + SumPoints(Tail(strokes))

getStats(d) ==
  [totalStrokes |-> Len(d.strokes),
   totalPoints |-> SumPoints(MapValues(d.strokes)),
   historySize |-> Len(d.operationHistory),
   redoStackSize |-> Len(d.redoStack)]

\* the stats record | null
getRoomStats(rm, roomId) ==
  IF roomId \in DOMAIN rm.rooms THEN <<getStats(rm.rooms[roomId].state)>>
  ELSE <<>>

\* ------------------------------------------------------------ DrawingCanvas

\* The canvas of a client: isDrawing, currentStroke (null is <<>>) and
\* state = {strokes, redoStack}, where redoStack may be undefined (<<>>) and
\* is <<the array>> otherwise.
newDrawingCanvas ==
  [isDrawing |-> FALSE, currentStroke |-> <<>>,
   strokes |-> <<>>, redoStack |-> << <<>> >>]

addRemoteStroke(cv, stroke) == [cv EXCEPT !.strokes = Append(@, stroke)]

\* threw: the call ended in a TypeError on this.state.redoStack (undefined),
\* after the statements before it had run.
Canvas_undo(cv) ==
  IF Len(cv.strokes) = 0
  THEN [cv |-> cv, ret |-> <<>>, threw |-> FALSE]
  ELSE LET stroke == Last(cv.strokes)
           popped == [cv EXCEPT !.strokes = Front(@)]
       IN  IF cv.redoStack = <<>>
           THEN [cv |-> popped, ret |-> <<>>, threw |-> TRUE]
           ELSE [cv |-> [popped EXCEPT !.redoStack = <<Append(@[1], stroke)>>],
                 ret |-> <<stroke>>, threw |-> FALSE]

Canvas_redo(cv) ==
  IF cv.redoStack = <<>>
  THEN [cv |-> cv, ret |-> <<>>, threw |-> TRUE]
  ELSE IF Len(cv.redoStack[1]) = 0
  THEN [cv |-> cv, ret |-> <<>>, threw |-> FALSE]
  ELSE LET stroke == Last(cv.redoStack[1])
       IN  [cv |-> [cv EXCEPT !.redoStack = <<Front(@[1])>>,
                              !.strokes = Append(@, stroke)],
            ret |-> <<stroke>>, threw |-> FALSE]

Canvas_clear(cv) == [cv EXCEPT !.strokes = <<>>, !.redoStack = << <<>> >>]

\* setState(state) with the {strokes} object of a full-state message, which
\* has no redoStack property.
Canvas_setState(cv, state) ==
  [cv EXCEPT !.strokes = state.strokes, !.redoStack = <<>>]

\* Math.random().toString(36).substr(2, 9): a fresh id per gesture.
NewStrokeId(c, n) == <<c, n>>

\* The pointer positions of a gesture: the point of mousedown, then moves.
PointerAt(n) == IF n = 1 THEN P0 ELSE P1

\* userColor and userName, drawn once per connection.
userColor(c) == <<"color", c>>

userName(c) == <<"name", c>>

\* A socket.io packet: the event, its argument and, for the events that mutate
\* the drawing, a serial number by which the observers of the packet and of
\* its rebroadcast are compared (0 otherwise).
Msg(type, body, tag) == [type |-> type, body |-> body, tag |-> tag]

\* ------------------------------------------------------------------- state

VARIABLES
  manager,    \* one DrawingStateManager driven through its public methods
  now,        \* Date.now() of the authority
  nextRef,    \* number of DrawingOperation objects allocated so far
  lastCall,   \* the last method called on manager, its actor and its result
  addsOnly,   \* TRUE while every call on manager so far was addStroke
  added,      \* the strokes passed to addStroke, in call order, while addsOnly
  pre,        \* <<state before the last undo>> until another call intervenes
  roomManager,  \* the RoomManager of the server
  socketRooms,  \* the socket.io rooms each socket has joined
  toServer,     \* per socket, the packets on their way to the server
  toClient,     \* per socket, the packets on their way to the client
  canvas,       \* per client, its DrawingCanvas
  connected,    \* per client, whether its socket has connected
  gestures,     \* the gestures started so far
  clicks,       \* clicks on undo, redo and clear so far
  nextTag,      \* serial numbers handed to mutating packets so far
  serverOrder,  \* the serial numbers in the order the server applied them
  observed,     \* per client, the serial numbers in the order it applied them
  regCall,      \* the last RoomManager method called directly, and its result
  inRoom,       \* per participant, <<the room it joined and has not left>>
  strict,       \* TRUE while nobody joined a second room without leaving
  closed,       \* the sockets that have disconnected
  injected      \* packets sent so far by clients that are not the bundled one

unitVars == <<manager, lastCall, addsOnly, added, pre>>

sysVars ==
  <<roomManager, socketRooms, toServer, toClient, canvas, connected,
    gestures, clicks, nextTag, serverOrder, observed>>

extraVars == <<regCall, inRoom, strict, closed, injected>>

netVars ==
  <<socketRooms, toServer, toClient, canvas, connected, gestures, clicks,
    nextTag, serverOrder, observed, closed, injected>>

vars ==
  <<manager, now, nextRef, lastCall, addsOnly, added, pre, sysVars, extraVars>>

RegCall(op, target, ret) == [op |-> op, target |-> target, ret |-> ret]

Call(op, userId, ret) == [op |-> op, userId |-> userId, ret |-> ret]

Init ==
  /\ manager = createDrawingStateManager
  /\ now = 0
  /\ nextRef = 0
  /\ lastCall = Call("new", "", <<>>)
  /\ addsOnly = TRUE
  /\ added = <<>>
  /\ pre = <<>>
  /\ roomManager = createRoomManager
  /\ socketRooms = [c \in Sockets |-> {}]
  /\ toServer = [c \in Sockets |-> <<>>]
  /\ toClient = [c \in Sockets |-> <<>>]
  /\ canvas = [c \in Sockets |-> newDrawingCanvas]
  /\ connected = [c \in Sockets |-> FALSE]
  /\ gestures = 0
  /\ clicks = 0
  /\ nextTag = 0
  /\ serverOrder = <<>>
  /\ observed = [c \in Sockets |-> <<>>]
  /\ regCall = RegCall("new", "", <<>>)
  /\ inRoom = [p \in Users |-> <<>>]
  /\ strict = TRUE
  /\ closed = {}
  /\ injected = 0

\* The clock of the authority advances between calls.
Tick ==
  /\ now + 1 \in Times
  /\ now' = now + 1
  /\ UNCHANGED <<manager, nextRef, lastCall, addsOnly, added, pre, sysVars, extraVars>>

AddStroke ==
  \E stroke \in StrokeInputs :
    /\ nextRef < MaxOps
    /\ manager' = addStroke(manager, stroke, now, nextRef)
    /\ nextRef' = nextRef + 1
    /\ lastCall' = Call("addStroke", stroke.userId, <<>>)
    /\ added' = IF addsOnly THEN Append(added, stroke) ELSE <<>>
    /\ pre' = <<>>
    /\ UNCHANGED <<now, addsOnly, sysVars, extraVars>>

RemoveStroke ==
  \E strokeId \in StrokeIds, userId \in Users :
    LET r == removeStroke(manager, strokeId, userId, now, nextRef) IN
    /\ r.ret = <<TRUE>> => nextRef < MaxOps
    /\ manager' = r.d
    /\ nextRef' = IF r.ret = <<TRUE>> THEN nextRef + 1 ELSE nextRef
    /\ lastCall' = Call("removeStroke", userId, r.ret)
    /\ addsOnly' = FALSE
    /\ added' = <<>>
    /\ pre' = <<>>
    /\ UNCHANGED <<now, sysVars, extraVars>>

Clear ==
  \E userId \in Users :
    /\ nextRef < MaxOps
    /\ manager' = clear(manager, userId, now, nextRef)
    /\ nextRef' = nextRef + 1
    /\ lastCall' = Call("clear", userId, <<>>)
    /\ addsOnly' = FALSE
    /\ added' = <<>>
    /\ pre' = <<>>
    /\ UNCHANGED <<now, sysVars, extraVars>>

Undo ==
  \E userId \in Users :
    LET r == undo(manager, userId) IN
    /\ manager' = r.d
    /\ lastCall' = Call("undo", userId, r.ret)
    /\ pre' = <<[manager |-> manager, ret |-> r.ret,
                  addsOnly |-> addsOnly, added |-> added]>>
    /\ addsOnly' = FALSE
    /\ added' = <<>>
    /\ UNCHANGED <<now, nextRef, sysVars, extraVars>>

Redo ==
  \E userId \in Users :
    LET r == redo(manager, userId) IN
    /\ manager' = r.d
    /\ lastCall' = Call("redo", userId, r.ret)
    /\ pre' = IF lastCall.op = "undo" THEN pre ELSE <<>>
    /\ addsOnly' = FALSE
    /\ added' = <<>>
    /\ UNCHANGED <<now, nextRef, sysVars, extraVars>>

Next == Tick \/ AddStroke \/ RemoveStroke \/ Clear \/ Undo \/ Redo

Spec == Init /\ [][Next]_vars

\* The maxAge arguments of cleanupOldStrokes, in clock readings.
MaxAges == {0, 1}

CleanupOldStrokes ==
  \E maxAge \in MaxAges :
    LET r == cleanupOldStrokes(manager, maxAge, now) IN
    /\ manager' = r.d
    /\ lastCall' = Call("cleanupOldStrokes", "", <<[maxAge |-> maxAge,
                                                   removedCount |-> r.ret]>>)
    /\ addsOnly' = FALSE
    /\ added' = <<>>
    /\ pre' = <<>>
    /\ UNCHANGED <<now, nextRef, sysVars, extraVars>>

\* The public methods of Spec, and the maintenance method.
MaintNext == Next \/ CleanupOldStrokes

MaintSpec == Init /\ [][MaintNext]_vars

\* --------------------------------------------------- clients and the server
\*
\* Each socket is a FIFO channel in either direction; the server and each
\* client run one listener at a time. A client acts once its socket has
\* connected, so join-room is the first packet it sends. A packet carries the
\* argument as it was when emit serialised it.

\* socket.emit on the client: the packet joins the queue to the server.
Emit(c, m) == [toServer EXCEPT ![c] = Append(@, m)]

Broadcast_toAll(q, sender, roomId, m) ==
  [s \in Sockets |-> IF roomId \in socketRooms[s] THEN Append(q[s], m) ELSE q[s]]

\* socket.to(roomId).emit: every socket in the room but the sender.
Broadcast(q, sender, roomId, m) ==
  [s \in Sockets |->
     IF s # sender /\ roomId \in socketRooms[s] THEN Append(q[s], m) ELSE q[s]]

\* The socket connects and its "connect" listener joins the room "default".
Connect(c) ==
  /\ ~connected[c]
  /\ connected' = [connected EXCEPT ![c] = TRUE]
  /\ toServer' = Emit(c, Msg("join-room", "default", 0))
  /\ UNCHANGED <<roomManager, socketRooms, toClient, canvas, gestures, clicks,
                 nextTag, serverOrder, observed, unitVars, extraVars, now, nextRef>>

\* mousedown or touchstart: startDrawing, which emits stroke-start.
StartDrawing(c) ==
  \E t \in Times :
    LET stroke == Stroke(NewStrokeId(c, gestures + 1), "local",
                         <<PointerAt(1)>>, t)
    IN  /\ connected[c]
        /\ gestures < MaxGestures
        /\ gestures' = gestures + 1
        /\ canvas' = [canvas EXCEPT ![c].isDrawing = TRUE,
                                    ![c].currentStroke = <<stroke>>]
        /\ toServer' = Emit(c, Msg("stroke-start", stroke, nextTag + 1))
        /\ nextTag' = nextTag + 1
        /\ UNCHANGED <<roomManager, socketRooms, toClient, connected, clicks,
                       serverOrder, observed, unitVars, extraVars, now, nextRef>>

\* touchmove while drawing: updateDrawing, which emits stroke-point.
UpdateDrawing(c) ==
  /\ connected[c]
  /\ canvas[c].isDrawing /\ canvas[c].currentStroke # <<>>
  /\ Len(canvas[c].currentStroke[1].points) < MaxPoints
  /\ LET cur == canvas[c].currentStroke[1]
         point == PointerAt(Len(cur.points) + 1)
     IN  /\ canvas' = [canvas EXCEPT
                         ![c].currentStroke[1].points = Append(@, point)]
         /\ toServer' = Emit(c, Msg("stroke-point",
                                    [strokeId |-> cur.id, point |-> point], 0))
  /\ UNCHANGED <<roomManager, socketRooms, toClient, connected, gestures,
                 clicks, nextTag, serverOrder, observed, unitVars, extraVars, now, nextRef>>

\* mouseup, mouseout or touchend while drawing: endDrawing.
EndDrawing(c) ==
  /\ connected[c]
  /\ canvas[c].isDrawing /\ canvas[c].currentStroke # <<>>
  /\ LET cur == canvas[c].currentStroke[1] IN
     IF Len(cur.points) > 1
     THEN /\ canvas' = [canvas EXCEPT ![c].isDrawing = FALSE,
                                      ![c].strokes = Append(@, cur),
                                      ![c].redoStack = << <<>> >>,
                                      ![c].currentStroke = <<>>]
          /\ toServer' = Emit(c, Msg("stroke-end", cur, nextTag + 1))
          /\ nextTag' = nextTag + 1
          /\ observed' = [observed EXCEPT ![c] = Append(@, nextTag + 1)]
     ELSE /\ canvas' = [canvas EXCEPT ![c].isDrawing = FALSE,
                                      ![c].currentStroke = <<>>]
          /\ UNCHANGED <<toServer, nextTag, observed>>
  /\ UNCHANGED <<roomManager, socketRooms, toClient, connected, gestures,
                 clicks, serverOrder, unitVars, extraVars, now, nextRef>>

\* Click on the undo button: canvas.undo(), then sendUndo if it gave a stroke.
UndoClick(c) ==
  LET r == Canvas_undo(canvas[c]) IN
  /\ connected[c]
  /\ clicks < MaxClicks
  /\ Len(canvas[c].strokes) > 0
  /\ clicks' = clicks + 1
  /\ canvas' = [canvas EXCEPT ![c] = r.cv]
  /\ IF r.ret # <<>>
     THEN /\ toServer' = Emit(c, Msg("undo", r.ret[1].id, nextTag + 1))
          /\ nextTag' = nextTag + 1
          /\ observed' = [observed EXCEPT ![c] = Append(@, nextTag + 1)]
     ELSE UNCHANGED <<toServer, nextTag, observed>>
  /\ UNCHANGED <<roomManager, socketRooms, toClient, connected, gestures,
                 serverOrder, unitVars, extraVars, now, nextRef>>

\* Click on the redo button: canvas.redo(), then sendRedo if it gave a stroke.
RedoClick(c) ==
  LET r == Canvas_redo(canvas[c]) IN
  /\ connected[c]
  /\ clicks < MaxClicks
  /\ r.ret # <<>>
  /\ clicks' = clicks + 1
  /\ canvas' = [canvas EXCEPT ![c] = r.cv]
  /\ toServer' = Emit(c, Msg("redo", r.ret[1].id, nextTag + 1))
  /\ nextTag' = nextTag + 1
  /\ observed' = [observed EXCEPT ![c] = Append(@, nextTag + 1)]
  /\ UNCHANGED <<roomManager, socketRooms, toClient, connected, gestures,
                 serverOrder, unitVars, extraVars, now, nextRef>>

\* Click on the clear button, confirmed: canvas.clear() and sendClear().
ClearClick(c) ==
  /\ connected[c]
  /\ clicks < MaxClicks
  /\ clicks' = clicks + 1
  /\ canvas' = [canvas EXCEPT ![c] = Canvas_clear(@)]
  /\ toServer' = Emit(c, Msg("clear", <<>>, nextTag + 1))
  /\ nextTag' = nextTag + 1
  /\ observed' = [observed EXCEPT ![c] = Append(@, nextTag + 1)]
  /\ UNCHANGED <<roomManager, socketRooms, toClient, connected, gestures,
                 serverOrder, unitVars, extraVars, now, nextRef>>

\* The next packet of socket c at the server is of the given event.
ServerGets(c, type) == toServer[c] # <<>> /\ Head(toServer[c]).type = type

\* socket.on("join-room")
ServerJoinRoom(c) ==
  /\ ServerGets(c, "join-room")
  /\ LET roomId == Head(toServer[c]).body
         rm == joinRoom(roomManager, c, roomId, userColor(c), userName(c))
         roomUsers == getRoomUsers(rm, roomId)
         joined == Msg("user-joined", roomUsers, 0)
         toSelf == [toClient EXCEPT ![c] = Append(@, joined)]
         toRoom == Broadcast(toSelf, c, roomId, joined)
     IN  /\ roomManager' = rm
         /\ socketRooms' = [socketRooms EXCEPT ![c] = @ \cup {roomId}]
         /\ toClient' = [toRoom EXCEPT ![c] =
                           Append(@, Msg("full-state", getRoomState(rm, roomId), 0))]
  /\ toServer' = [toServer EXCEPT ![c] = Tail(@)]
  /\ UNCHANGED <<canvas, connected, gestures, clicks, nextTag, serverOrder,
                 observed, unitVars, extraVars, now, nextRef>>

\* The serial numbers in the order the server applied them; a packet that
\* carries none (0) leaves no trace.
Applied(tag) == IF tag = 0 THEN serverOrder ELSE Append(serverOrder, tag)

Authored_asDeclared(stroke, c) == stroke

\* stroke.userId = socket.id
Authored(stroke, c) == [stroke EXCEPT !.userId = c]

\* socket.on("stroke-start") and socket.on("stroke-end"): the same handler
\* body under two event names.
ServerStroke(c, type) ==
  /\ ServerGets(c, type)
  /\ LET m == Head(toServer[c])
         room == getUserRoom(roomManager, c)
         stroke == Authored(m.body, c)
     IN  IF room # <<>>
         THEN /\ roomManager' =
                   RoomManager_addStroke(roomManager, room[1], stroke, now, nextRef)
              /\ nextRef' = nextRef + 1
              /\ toClient' = Broadcast(toClient, c, room[1], Msg(type, stroke, m.tag))
              /\ serverOrder' = Applied(m.tag)
         ELSE UNCHANGED <<roomManager, nextRef, toClient, serverOrder>>
  /\ toServer' = [toServer EXCEPT ![c] = Tail(@)]
  /\ UNCHANGED <<socketRooms, canvas, connected, gestures, clicks, nextTag,
                 observed, unitVars, extraVars, now>>

ServerStrokeStart(c) == ServerStroke(c, "stroke-start")

ServerStrokeEnd(c) == ServerStroke(c, "stroke-end")

\* socket.on("stroke-point")
ServerStrokePoint(c) ==
  /\ ServerGets(c, "stroke-point")
  /\ LET m == Head(toServer[c])
         room == getUserRoom(roomManager, c)
         data == [strokeId |-> m.body.strokeId, point |-> m.body.point,
                  userId |-> c]
     IN  IF room # <<>>
         THEN toClient' = Broadcast(toClient, c, room[1], Msg("stroke-point", data, 0))
         ELSE UNCHANGED toClient
  /\ toServer' = [toServer EXCEPT ![c] = Tail(@)]
  /\ UNCHANGED <<roomManager, socketRooms, canvas, connected, gestures, clicks,
                 nextTag, serverOrder, observed, unitVars, extraVars, now, nextRef>>

\* socket.on("undo")
ServerUndo(c) ==
  /\ ServerGets(c, "undo")
  /\ LET m == Head(toServer[c])
         room == getUserRoom(roomManager, c)
     IN  IF room # <<>>
         THEN /\ roomManager' = RoomManager_undo(roomManager, room[1], c)
              /\ toClient' = Broadcast(toClient, c, room[1], Msg("undo", m.body, m.tag))
              /\ serverOrder' = Applied(m.tag)
         ELSE UNCHANGED <<roomManager, toClient, serverOrder>>
  /\ toServer' = [toServer EXCEPT ![c] = Tail(@)]
  /\ UNCHANGED <<socketRooms, canvas, connected, gestures, clicks, nextTag,
                 observed, unitVars, extraVars, now, nextRef>>

\* socket.on("redo")
ServerRedo(c) ==
  /\ ServerGets(c, "redo")
  /\ LET m == Head(toServer[c])
         room == getUserRoom(roomManager, c)
     IN  IF room # <<>>
         THEN /\ roomManager' = RoomManager_redo(roomManager, room[1], c)
              /\ toClient' = Broadcast(toClient, c, room[1], Msg("redo", m.body, m.tag))
              /\ serverOrder' = Applied(m.tag)
         ELSE UNCHANGED <<roomManager, toClient, serverOrder>>
  /\ toServer' = [toServer EXCEPT ![c] = Tail(@)]
  /\ UNCHANGED <<socketRooms, canvas, connected, gestures, clicks, nextTag,
                 observed, unitVars, extraVars, now, nextRef>>

\* socket.on("clear")
ServerClear(c) ==
  /\ ServerGets(c, "clear")
  /\ LET m == Head(toServer[c])
         room == getUserRoom(roomManager, c)
     IN  IF room # <<>>
         THEN /\ roomManager' = clearRoom(roomManager, room[1], c, now, nextRef)
              /\ nextRef' = nextRef + 1
              /\ toClient' = Broadcast(toClient, c, room[1], Msg("clear", <<>>, m.tag))
              /\ serverOrder' = Applied(m.tag)
         ELSE UNCHANGED <<roomManager, nextRef, toClient, serverOrder>>
  /\ toServer' = [toServer EXCEPT ![c] = Tail(@)]
  /\ UNCHANGED <<socketRooms, canvas, connected, gestures, clicks, nextTag,
                 observed, unitVars, extraVars, now>>

\* The next packet of socket c at the client is of the given event.
ClientGets(c, type) == toClient[c] # <<>> /\ Head(toClient[c]).type = type

\* The client takes the packet, with the canvas its listener leaves and the
\* serial number it has then applied (0: none).
Deliver(c, cv, tag) ==
  /\ canvas' = [canvas EXCEPT ![c] = cv]
  /\ toClient' = [toClient EXCEPT ![c] = Tail(@)]
  /\ observed' = IF tag = 0 THEN observed
                 ELSE [observed EXCEPT ![c] = Append(@, tag)]
  /\ UNCHANGED <<roomManager, socketRooms, toServer, connected, gestures,
                 clicks, nextTag, serverOrder, unitVars, extraVars, now, nextRef>>

\* socket.on("user-joined"): currentUser and the user list of the page.
OnUserJoined(c) ==
  /\ ClientGets(c, "user-joined")
  /\ Deliver(c, canvas[c], 0)

\* websocket.onStrokeStart / onStrokeEnd: canvas.addRemoteStroke(stroke).
OnStrokeStart(c) ==
  /\ ClientGets(c, "stroke-start")
  /\ Deliver(c, addRemoteStroke(canvas[c], Head(toClient[c]).body),
             Head(toClient[c]).tag)

OnStrokeEnd(c) ==
  /\ ClientGets(c, "stroke-end")
  /\ Deliver(c, addRemoteStroke(canvas[c], Head(toClient[c]).body),
             Head(toClient[c]).tag)

\* websocket.onStrokePoint: console.log only.
OnStrokePoint(c) ==
  /\ ClientGets(c, "stroke-point")
  /\ Deliver(c, canvas[c], 0)

\* websocket.onUndo: canvas.undo(), whatever stroke id the packet names.
OnUndo(c) ==
  /\ ClientGets(c, "undo")
  /\ Deliver(c, Canvas_undo(canvas[c]).cv, Head(toClient[c]).tag)

\* websocket.onRedo: canvas.redo().
OnRedo(c) ==
  /\ ClientGets(c, "redo")
  /\ Deliver(c, Canvas_redo(canvas[c]).cv, Head(toClient[c]).tag)

\* websocket.onClear: canvas.clear().
OnClear(c) ==
  /\ ClientGets(c, "clear")
  /\ Deliver(c, Canvas_clear(canvas[c]), Head(toClient[c]).tag)

\* websocket.onFullState: canvas.setState(state).
OnFullState(c) ==
  /\ ClientGets(c, "full-state")
  /\ Deliver(c, Canvas_setState(canvas[c], Head(toClient[c]).body), 0)

\* socket.on("cursor-move"): the fields of the point come after userId in the
\* object literal, so a field of the point wins over the same field before it.
ServerCursorMove(c) ==
  /\ ServerGets(c, "cursor-move")
  /\ LET m == Head(toServer[c])
         room == getUserRoom(roomManager, c)
     IN  IF room # <<>>
         THEN toClient' = Broadcast(toClient, c, room[1],
                                    Msg("cursor-move", m.body @@ [userId |-> c], 0))
         ELSE UNCHANGED toClient
  /\ toServer' = [toServer EXCEPT ![c] = Tail(@)]
  /\ UNCHANGED <<roomManager, socketRooms, canvas, connected, gestures, clicks,
                 nextTag, serverOrder, observed, unitVars, extraVars, now, nextRef>>

\* socket.on("disconnect"): the event follows the last packet of the socket;
\* by then the socket has left its socket.io rooms.
ServerDisconnect(c) ==
  /\ ServerGets(c, "disconnect")
  /\ LET room == getUserRoom(roomManager, c)
     IN  IF room # <<>>
         THEN /\ roomManager' = leaveRoom(roomManager, c)
              /\ toClient' = Broadcast(toClient, c, room[1],
                                       Msg("user-left", c, 0))
         ELSE UNCHANGED <<roomManager, toClient>>
  /\ socketRooms' = [socketRooms EXCEPT ![c] = {}]
  /\ closed' = closed \cup {c}
  /\ toServer' = [toServer EXCEPT ![c] = Tail(@)]
  /\ UNCHANGED <<canvas, connected, gestures, clicks, nextTag, serverOrder,
                 observed, unitVars, regCall, inRoom, strict, injected, now,
                 nextRef>>

\* socket.on("user-left"): the user list of the page.
OnUserLeft(c) ==
  /\ ClientGets(c, "user-left")
  /\ Deliver(c, canvas[c], 0)

\* socket.on("cursor-move"): the cursor overlay of the page.
OnCursorMove(c) ==
  /\ ClientGets(c, "cursor-move")
  /\ Deliver(c, canvas[c], 0)

SysNext ==
  \E c \in Sockets :
    \/ Connect(c)
    \/ StartDrawing(c)
    \/ UpdateDrawing(c)
    \/ EndDrawing(c)
    \/ UndoClick(c)
    \/ RedoClick(c)
    \/ ClearClick(c)
    \/ ServerJoinRoom(c)
    \/ ServerStrokeStart(c)
    \/ ServerStrokePoint(c)
    \/ ServerStrokeEnd(c)
    \/ ServerUndo(c)
    \/ ServerRedo(c)
    \/ ServerClear(c)
    \/ OnUserJoined(c)
    \/ OnStrokeStart(c)
    \/ OnStrokePoint(c)
    \/ OnStrokeEnd(c)
    \/ OnUndo(c)
    \/ OnRedo(c)
    \/ OnClear(c)
    \/ OnFullState(c)

SysSpec == Init /\ [][SysNext]_vars

\* ------------------------------------------------ the server and any client
\*
\* What the server does with whatever packets reach it: a socket may send any
\* event with any argument, in any order, whatever the bundled client would
\* send. The packets are taken in the order they reach the server, one at a
\* time; the receivers run the listeners of the bundled client.

\* The strokes on the wire: a one-point stroke of author "local", as
\* startDrawing makes it, and a two-point stroke that names "A" as author.
WireStrokes ==
  {Stroke("s1", "local", <<P0>>, CreatedAt("s1")),
   Stroke("s2", "A", <<P0, P1>>, CreatedAt("s2"))}

\* The point of a cursor-move packet; this one has a userId field as well.
WirePoint == [x |-> 5, y |-> 5, userId |-> "A"]

ClientPackets ==
  {Msg("join-room", roomId, 0) : roomId \in RoomIds}
    \cup {Msg(type, stroke, 0) :
            type \in {"stroke-start", "stroke-end"}, stroke \in WireStrokes}
    \cup {Msg("stroke-point", [strokeId |-> "s1", point |-> P1], 0),
          Msg("undo", "s1", 0), Msg("redo", "s1", 0), Msg("clear", <<>>, 0),
          Msg("cursor-move", WirePoint, 0), Msg("disconnect", <<>>, 0)}

Idle == \A s \in Sockets : toServer[s] = <<>> /\ toClient[s] = <<>>

\* The next packet to reach the server comes from socket c.
Inject(c) ==
  \E m \in ClientPackets :
    /\ c \notin closed
    /\ injected < MaxMsgs
    /\ Idle
    /\ injected' = injected + 1
    /\ toServer' = Emit(c, m)
    /\ UNCHANGED <<roomManager, socketRooms, toClient, canvas, connected,
                   gestures, clicks, nextTag, serverOrder, observed, unitVars,
                   regCall, inRoom, strict, closed, now, nextRef>>

SrvNext ==
  \E c \in Sockets :
    \/ Inject(c)
    \/ ServerJoinRoom(c)
    \/ ServerStrokeStart(c)
    \/ ServerStrokePoint(c)
    \/ ServerStrokeEnd(c)
    \/ ServerUndo(c)
    \/ ServerRedo(c)
    \/ ServerClear(c)
    \/ ServerCursorMove(c)
    \/ ServerDisconnect(c)
    \/ OnUserJoined(c)
    \/ OnStrokeStart(c)
    \/ OnStrokePoint(c)
    \/ OnStrokeEnd(c)
    \/ OnUndo(c)
    \/ OnRedo(c)
    \/ OnClear(c)
    \/ OnFullState(c)
    \/ OnUserLeft(c)
    \/ OnCursorMove(c)

SrvSpec == Init /\ [][SrvNext]_vars

\* ------------------------------------------- the RoomManager called directly

\* Calls of the public methods of one RoomManager, in any order, by any
\* participant and for any room id.
regFrame == <<manager, lastCall, addsOnly, added, pre, now, netVars>>

JoinRoom(userId, roomId) ==
  /\ roomManager' =
       joinRoom(roomManager, userId, roomId, userColor(userId), userName(userId))
  /\ regCall' = RegCall("joinRoom", roomId, <<>>)
  /\ strict' = (strict /\ inRoom[userId] \in {<<>>, <<roomId>>})
  /\ inRoom' = [inRoom EXCEPT ![userId] = <<roomId>>]
  /\ UNCHANGED <<nextRef, regFrame>>

LeaveRoom(userId) ==
  /\ roomManager' = leaveRoom(roomManager, userId)
  /\ regCall' = RegCall("leaveRoom", userId, <<>>)
  /\ inRoom' = [inRoom EXCEPT ![userId] = <<>>]
  /\ UNCHANGED <<nextRef, strict, regFrame>>

\* A mutator of room roomId that allocates one DrawingOperation when it acts.
RegMutate(op, roomId, rm1) ==
  /\ rm1 # roomManager => nextRef < MaxRegOps
  /\ roomManager' = rm1
  /\ nextRef' = IF rm1 # roomManager THEN nextRef + 1 ELSE nextRef
  /\ regCall' = RegCall(op, roomId, <<>>)
  /\ UNCHANGED <<inRoom, strict, regFrame>>

\* The strokes handed to RoomManager.addStroke: s1 is inserted first or
\* second, and was created after s2.
RegStrokes == {st \in StrokeInputs : st.id # "s3" /\ st.userId = "B"}

RegAddStroke(roomId) ==
  \E stroke \in RegStrokes :
    RegMutate("addStroke", roomId,
              RoomManager_addStroke(roomManager, roomId, stroke, now, nextRef))

RegRemoveStroke(roomId) ==
  \E strokeId \in {st.id : st \in RegStrokes} :
    RegMutate("removeStroke", roomId,
              RoomManager_removeStroke(roomManager, roomId, strokeId, now,
                                       nextRef))

RegClearRoom(roomId) ==
  \E userId \in Users :
    RegMutate("clearRoom", roomId,
              clearRoom(roomManager, roomId, userId, now, nextRef))

RegUndo(roomId) ==
  \E userId \in Users :
    /\ roomManager' = RoomManager_undo(roomManager, roomId, userId)
    /\ regCall' = RegCall("undo", roomId, <<>>)
    /\ UNCHANGED <<nextRef, inRoom, strict, regFrame>>

RegRedo(roomId) ==
  \E userId \in Users :
    /\ roomManager' = RoomManager_redo(roomManager, roomId, userId)
    /\ regCall' = RegCall("redo", roomId, <<>>)
    /\ UNCHANGED <<nextRef, inRoom, strict, regFrame>>

\* A read accessor: the result is kept in regCall.
RegRead(op, target, ret) ==
  /\ regCall' = RegCall(op, target, <<ret>>)
  /\ UNCHANGED <<roomManager, nextRef, inRoom, strict, regFrame>>

GetRoomUsers(roomId) ==
  RegRead("getRoomUsers", roomId, getRoomUsers(roomManager, roomId))

GetRoomState(roomId) ==
  RegRead("getRoomState", roomId, getRoomState(roomManager, roomId))

GetRoomStats(roomId) ==
  RegRead("getRoomStats", roomId, getRoomStats(roomManager, roomId))

GetUserRoom(userId) ==
  RegRead("getUserRoom", userId, getUserRoom(roomManager, userId))

\* Membership: joins and leaves, strokes, and what the accessors then report.
RegNext ==
  \/ \E userId \in Users, roomId \in RoomIds : JoinRoom(userId, roomId)
  \/ \E userId \in Users : LeaveRoom(userId)
  \/ \E roomId \in RoomIds : RegAddStroke(roomId)
  \/ \E roomId \in RoomIds : GetRoomUsers(roomId)
  \/ \E roomId \in RoomIds : GetRoomStats(roomId)
  \/ \E userId \in Users : GetUserRoom(userId)

RegSpec == Init /\ [][RegNext]_vars

\* The passthrough methods on the rooms that the joins of one participant
\* have created.
PassNext ==
  \/ \E roomId \in RoomIds : JoinRoom("A", roomId)
  \/ \E roomId \in RoomIds : RegAddStroke(roomId)
  \/ \E roomId \in RoomIds : RegRemoveStroke(roomId)
  \/ \E roomId \in RoomIds : RegClearRoom(roomId)
  \/ \E roomId \in RoomIds : RegUndo(roomId)
  \/ \E roomId \in RoomIds : RegRedo(roomId)
  \/ \E roomId \in RoomIds : GetRoomUsers(roomId)
  \/ \E roomId \in RoomIds : GetRoomState(roomId)
  \/ \E roomId \in RoomIds : GetRoomStats(roomId)

PassSpec == Init /\ [][PassNext]_vars

\* ------------------------------------------------- claims on DrawingState

\* The ids of a sequence of strokes are pairwise distinct.
DistinctIds(ss) == \A i, j \in 1..Len(ss) : ss[i].id = ss[j].id => i = j

\* The call just made is a redo that came right after an undo.
RedoRightAfterUndo == lastCall.op = "redo" /\ pre # <<>>

\* The call just made is an undo that found a non-empty history.
UndoPopped ==
  lastCall.op = "undo" /\ pre # <<>> /\ Len(pre[1].manager.operationHistory) > 0

\* C1 - Undo/redo inverse law: in a state reached by addStroke calls only,
\* undo() immediately followed by redo() leaves the stroke map (ids and
\* fields) as it was before the undo, leaves the lengths of the history and
\* of the redoStack as they were, and redo() returns the operation that
\* undo() returned.
C1_UndoRedoInverse ==
  (RedoRightAfterUndo /\ pre[1].addsOnly) =>
    /\ MapEntries(manager.strokes) = MapEntries(pre[1].manager.strokes)
    /\ Len(manager.operationHistory) = Len(pre[1].manager.operationHistory)
    /\ Len(manager.redoStack) = Len(pre[1].manager.redoStack)
    /\ lastCall.ret = pre[1].ret

\* Two strokes were in the map, the undone Add came back through redo.
C1_Witness ==
  /\ RedoRightAfterUndo
  /\ pre[1].addsOnly
  /\ lastCall.ret # <<>>
  /\ Len(pre[1].manager.strokes) = 2
  /\ Len(manager.strokes) = 2

\* C2 - Global stack: undo pops the most recent history entry whatever actor
\* id is passed; when that entry is an Add of stroke S2, the undo removes S2
\* from the stroke map and leaves every other stroke (the S1 of another
\* actor) in it.
C2_GlobalUndo ==
  UndoPopped =>
    LET h == pre[1].manager.operationHistory
        top == Last(h)
    IN  /\ lastCall.ret = <<top>>
        /\ manager.operationHistory = Front(h)
        /\ top.type = "add" =>
             /\ ~MapHas(manager.strokes, top.stroke[1].id)
             /\ \A e \in MapEntries(pre[1].manager.strokes) :
                  e.k # top.stroke[1].id => e \in MapEntries(manager.strokes)

\* A added S1, B added S2, and A's undo removed B's S2 and left S1.
C2_Witness ==
  /\ UndoPopped
  /\ lastCall.userId = "A"
  /\ lastCall.ret[1].type = "add"
  /\ lastCall.ret[1].userId = "B"
  /\ Len(manager.operationHistory) = 1
  /\ manager.operationHistory[1].type = "add"
  /\ manager.operationHistory[1].userId = "A"
  /\ MapKeys(manager.strokes) = {manager.operationHistory[1].stroke[1].id}
  /\ lastCall.ret[1].stroke[1].id \notin MapKeys(manager.strokes)

\* C5 - History cap: in every reachable state the operation history holds at
\* most maxHistorySize entries.
C5_HistoryCap == Len(manager.operationHistory) <= maxHistorySize

\* C6 - History retention under the cap: after more than maxHistorySize
\* addStroke calls with distinct ids and no other call, the history is the
\* maxHistorySize most recent Adds in call order, the stroke map holds every
\* added stroke, and an undo then returns the most recent Add and removes its
\* stroke.
C6_HistoryRetention ==
  /\ (addsOnly /\ Len(added) > maxHistorySize /\ DistinctIds(added)) =>
       /\ Len(manager.operationHistory) = maxHistorySize
       /\ \A i \in 1..maxHistorySize :
            /\ manager.operationHistory[i].type = "add"
            /\ manager.operationHistory[i].stroke =
                 <<added[Len(added) - maxHistorySize + i]>>
       /\ MapKeys(manager.strokes) = {added[j].id : j \in 1..Len(added)}
       /\ \A j \in 1..Len(added) :
            MapGet(manager.strokes, added[j].id) = <<added[j]>>
  /\ (/\ lastCall.op = "undo" /\ pre # <<>>
      /\ pre[1].addsOnly
      /\ Len(pre[1].added) > maxHistorySize
      /\ DistinctIds(pre[1].added)) =>
       /\ lastCall.ret # <<>>
       /\ lastCall.ret[1].type = "add"
       /\ lastCall.ret[1].stroke = <<Last(pre[1].added)>>
       /\ MapKeys(manager.strokes) =
            {pre[1].added[j].id : j \in 1..Len(pre[1].added) - 1}

\* More Adds than the cap, all ids distinct, then the undo of the last one.
C6_Witness ==
  /\ lastCall.op = "undo" /\ pre # <<>>
  /\ pre[1].addsOnly
  /\ Len(pre[1].added) > maxHistorySize
  /\ DistinctIds(pre[1].added)
  /\ Len(pre[1].manager.strokes) > maxHistorySize

\* C7 - Undo of a Remove restores the stroke: a Remove operation recorded by
\* a removeStroke that returned true carries the removed stroke, and an undo
\* that pops a Remove puts that stroke back under the same id.
C7_UndoRemoveRestores ==
  /\ (lastCall.op = "removeStroke" /\ lastCall.ret = <<TRUE>>) =>
       Last(manager.operationHistory).stroke # <<>>
  /\ (UndoPopped /\ lastCall.ret[1].type = "remove") =>
       /\ MapHas(manager.strokes, lastCall.ret[1].strokeId[1])
       /\ MapGet(manager.strokes, lastCall.ret[1].strokeId[1]) =
            lastCall.ret[1].stroke

\* C8 - Clear/undo gap: clear() empties the stroke map and records a Clear
\* operation; an undo that pops a Clear restores no stroke (the map was and
\* stays empty), returns the Clear and moves it from the history to the
\* redoStack.
C8_ClearUndoGap ==
  /\ lastCall.op = "clear" =>
       /\ manager.strokes = <<>>
       /\ Len(manager.operationHistory) > 0
       /\ Last(manager.operationHistory).type = "clear"
       /\ Last(manager.operationHistory).userId = lastCall.userId
  /\ (UndoPopped /\ Last(pre[1].manager.operationHistory).type = "clear") =>
       LET h == pre[1].manager.operationHistory IN
       /\ pre[1].manager.strokes = <<>>
       /\ manager.strokes = <<>>
       /\ lastCall.ret = <<Last(h)>>
       /\ manager.operationHistory = Front(h)
       /\ manager.redoStack = Append(pre[1].manager.redoStack, Last(h))

\* A stroke was added, cleared, and the undo of the Clear left the map empty
\* with the Add now on top of the history.
C8_Witness ==
  /\ UndoPopped
  /\ lastCall.ret[1].type = "clear"
  /\ manager.strokes = <<>>
  /\ Len(manager.operationHistory) > 0
  /\ Last(manager.operationHistory).type = "add"
  /\ Last(manager.redoStack).type = "clear"

\* The call just made recorded a new operation.
Mutated ==
  \/ lastCall.op \in {"addStroke", "clear"}
  \/ lastCall.op = "removeStroke" /\ lastCall.ret = <<TRUE>>

\* C9 - Redo invalidation: right after every addStroke, every removeStroke
\* that returned true and every clear, the redoStack is empty.
C9_RedoInvalidation == Mutated => manager.redoStack = <<>>

\* The operation allocated second was undone and sat on the redoStack when
\* the removeStroke just made (the third allocation) discarded it.
C9_Witness ==
  /\ lastCall.op = "removeStroke" /\ lastCall.ret = <<TRUE>>
  /\ Len(manager.operationHistory) = 2
  /\ manager.operationHistory[1].ref = 0
  /\ manager.operationHistory[2].ref = 2
  /\ manager.redoStack = <<>>

\* The object identities held by the history and the redoStack together.
Refs(d) ==
  [i \in 1..Len(d.operationHistory) + Len(d.redoStack) |->
     IF i <= Len(d.operationHistory)
     THEN d.operationHistory[i].ref
     ELSE d.redoStack[i - Len(d.operationHistory)].ref]

\* C10 - History/redoStack disjointness: no recorded operation is in both
\* the history and the redoStack, and none appears twice across the two.
C10_Disjoint ==
  \A i, j \in 1..Len(Refs(manager)) :
    Refs(manager)[i] = Refs(manager)[j] => i = j

\* Both stacks hold operations, of both actors, after an undo.
C10_Witness ==
  /\ Len(manager.operationHistory) > 0
  /\ Len(manager.redoStack) > 1
  /\ \E i \in 1..Len(manager.redoStack) :
       manager.redoStack[i].userId # manager.operationHistory[1].userId

\* ------------------------------------------------- claims on the protocol

\* The position of serial number t in the sequence q (0: not in it).
Pos(q, t) ==
  IF \E i \in 1..Len(q) : q[i] = t
  THEN CHOOSE i \in 1..Len(q) : q[i] = t ELSE 0

\* C3 - Ordering guarantee: every participant observes the mutating
\* operations of its room (those it applied as originator and those it
\* received by broadcast) in the order in which the authority applied them.
C3_SameTotalOrder ==
  \A c \in Sockets :
    \A i, j \in 1..Len(observed[c]) :
      (/\ i < j
       /\ Pos(serverOrder, observed[c][i]) # 0
       /\ Pos(serverOrder, observed[c][j]) # 0) =>
        Pos(serverOrder, observed[c][i]) < Pos(serverOrder, observed[c][j])

\* Nothing is in flight and no gesture is in progress.
Quiescent ==
  \A c \in Sockets :
    /\ toServer[c] = <<>>
    /\ toClient[c] = <<>>
    /\ ~canvas[c].isDrawing

\* The stroke ids in the local view of client c.
LocalIds(c) == {canvas[c].strokes[i].id : i \in 1..Len(canvas[c].strokes)}

\* C4 - Convergence: at quiescence the stroke ids in the local view of every
\* participant of a room are the stroke ids in the authority's stroke map of
\* that room.
C4_Convergence ==
  Quiescent =>
    \A c \in DOMAIN roomManager.userRooms :
      LocalIds(c) =
        MapKeys(roomManager.rooms[roomManager.userRooms[c]].state.strokes)

\* ------------------------------------------------- claims on the RoomManager

\* The ids in a user list.
UserIds(users) == {users[i].id : i \in 1..Len(users)}

\* The participants that joined room r and have not left.
Members(r) == {p \in Users : inRoom[p] = <<r>>}

\* C11: while every participant joins at most one room between two of its
\* leaves, a room exists exactly while somebody who joined it has not left;
\* its user list holds those participants, each once; and once the last of
\* them has left, its users query is empty and its stats query finds nothing.
C11_RoomLifecycle ==
  strict =>
    /\ \A r \in RoomIds :
         LET users == getRoomUsers(roomManager, r)
         IN  /\ r \in DOMAIN roomManager.rooms <=> Members(r) # {}
             /\ UserIds(users) = Members(r)
             /\ Len(users) = Cardinality(Members(r))
             /\ Members(r) = {} => getRoomStats(roomManager, r) = <<>>
    /\ regCall.op = "getRoomUsers" =>
         /\ UserIds(regCall.ret[1]) = Members(regCall.target)
         /\ Len(regCall.ret[1]) = Cardinality(Members(regCall.target))
    /\ regCall.op = "getRoomStats" =>
         (regCall.ret[1] = <<>> <=> Members(regCall.target) = {})

\* Rooms were created and given strokes, and the last participant has just
\* left: no room is left.
C11_Witness ==
  /\ strict
  /\ regCall = RegCall("leaveRoom", "B", <<>>)
  /\ nextRef = MaxRegOps
  /\ DOMAIN roomManager.rooms = {}
  /\ DOMAIN roomManager.userRooms = {}

\* C12: each participant id is in the user list of at most one room, and
\* that room is the one userRooms gives for it.
C12_OneRoomPerParticipant ==
  \A p \in Users :
    \A r \in DOMAIN roomManager.rooms :
      p \in UserIds(roomManager.rooms[r].users) =>
        getUserRoom(roomManager, p) = <<r>>

\* out lists the strokes of the stroke map of d, each once, by ascending
\* timestamp.
IsSnapshot(out, d) ==
  /\ Len(out) = Len(d.strokes)
  /\ {out[i] : i \in 1..Len(out)} = {e.v : e \in MapEntries(d.strokes)}
  /\ \A i, j \in 1..Len(out) : i < j => out[i].timestamp <= out[j].timestamp

\* C18: getAllStrokes returns exactly the strokes in the stroke map, each
\* once, sorted by ascending creation timestamp, whatever the order in which
\* they were inserted; so does the list getRoomState hands out.
C18_SnapshotOrder ==
  /\ \A r \in DOMAIN roomManager.rooms :
       IsSnapshot(getAllStrokes(roomManager.rooms[r].state),
                  roomManager.rooms[r].state)
  /\ (regCall.op = "getRoomState" /\ regCall.target \in DOMAIN roomManager.rooms)
       => IsSnapshot(regCall.ret[1].strokes,
                     roomManager.rooms[regCall.target].state)

\* s1 was inserted before s2 and s2 was created before s1: the list read
\* from the room has s2 first.
C18_Witness ==
  /\ regCall.op = "getRoomState"
  /\ regCall.target \in DOMAIN roomManager.rooms
  /\ LET strokes == roomManager.rooms[regCall.target].state.strokes
     IN  Len(strokes) = 2 /\ strokes[1].k = "s1" /\ strokes[2].k = "s2"
  /\ Len(regCall.ret[1].strokes) = 2
  /\ regCall.ret[1].strokes[1].id = "s2"

PassOps ==
  {"addStroke", "removeStroke", "undo", "redo", "clearRoom", "getRoomUsers",
   "getRoomState", "getRoomStats"}

\* A room as the registry holds it: <<its state and users>>, or <<>>.
RoomView(rm, r) == IF r \in DOMAIN rm.rooms THEN <<rm.rooms[r]>> ELSE <<>>

\* C19: a passthrough call addressed to room r leaves every other room as it
\* was (stroke map, history, redoStack, users, and whether it exists); when
\* r does not exist the call changes nothing, creates no room, and the
\* accessors return [], {strokes: []} and null.
C19_RoomBoundary ==
  [][regCall'.op \in PassOps =>
       LET r == regCall'.target
       IN  /\ \A o \in RoomIds \ {r} :
                RoomView(roomManager', o) = RoomView(roomManager, o)
           /\ r \notin DOMAIN roomManager.rooms =>
                /\ roomManager' = roomManager
                /\ regCall'.op = "getRoomUsers" => regCall'.ret[1] = <<>>
                /\ regCall'.op = "getRoomState" =>
                     regCall'.ret[1] = [strokes |-> <<>>]
                /\ regCall'.op = "getRoomStats" => regCall'.ret[1] = <<>>]_vars

\* undo has just acted on "default" while "studio" holds an operation of its
\* own.
C19_Witness ==
  /\ regCall = RegCall("undo", "default", <<>>)
  /\ DOMAIN roomManager.rooms = RoomIds
  /\ Len(roomManager.rooms["default"].state.redoStack) = 1
  /\ Len(roomManager.rooms["studio"].state.operationHistory) = 1

\* ------------------------------------------------- claims on the server

\* The step is the server's listener for the event taking a packet of c.
Handled(c, type) ==
  ServerGets(c, type) /\ toServer'[c] = Tail(toServer[c])

\* The step is the client's listener for the event taking a packet.
Received(c, type) ==
  ClientGets(c, type) /\ toClient'[c] = Tail(toClient[c])

\* C13: the full-state packet the server sends when it handles join-room
\* holds exactly the strokes of the room's stroke map at that moment, each
\* once, and nothing else; once the client has applied it, the strokes of
\* its canvas are that list.
C13_JoinCatchUp ==
  [][\A c \in Sockets :
       /\ Handled(c, "join-room") =>
            LET roomId == Head(toServer[c]).body
                sent == Last(toClient'[c])
            IN  /\ Len(toClient'[c]) > Len(toClient[c])
                /\ sent.type = "full-state"
                /\ DOMAIN sent.body = {"strokes"}
                /\ roomId \in DOMAIN roomManager'.rooms
                /\ LET map == roomManager'.rooms[roomId].state.strokes
                   IN  /\ Len(sent.body.strokes) = Len(map)
                       /\ {sent.body.strokes[i] : i \in 1..Len(map)} =
                            {e.v : e \in MapEntries(map)}
       /\ Received(c, "full-state") =>
            canvas'[c].strokes = Head(toClient[c]).body.strokes]_vars

\* A sent two strokes to its room and joined it again; nobody else ever
\* joined, so the two strokes on A's canvas are those of the full-state.
C13_Witness ==
  /\ socketRooms["B"] = {}
  /\ Len(canvas["A"].strokes) = 2
  /\ \E r \in DOMAIN roomManager.rooms :
       {canvas["A"].strokes[i] : i \in 1..2} =
         {e.v : e \in MapEntries(roomManager.rooms[r].state.strokes)}

MutatingEvents == {"stroke-start", "stroke-end", "undo", "redo", "clear"}

\* The open sockets that take part in room roomId: those whose current room
\* it is, and those its user list names.
Participants(rm, roomId) ==
  {s \in Sockets \ closed :
     \/ getUserRoom(rm, s) = <<roomId>>
     \/ s \in UserIds(getRoomUsers(rm, roomId))}

\* C14: when the server handles a stroke-start, stroke-end, undo, redo or
\* clear packet of a sender that has a current room, one packet of that
\* event goes to every other participant of the room and none to the sender;
\* when the sender has no current room, nothing changes and nothing is sent.
C14_FanOutNoEcho ==
  [][\A c \in Sockets : \A type \in MutatingEvents :
       Handled(c, type) =>
         LET room == getUserRoom(roomManager, c)
         IN  IF room # <<>>
             THEN /\ toClient'[c] = toClient[c]
                  /\ \A s \in Participants(roomManager, room[1]) \ {c} :
                       /\ Len(toClient'[s]) = Len(toClient[s]) + 1
                       /\ Last(toClient'[s]).type = type
             ELSE /\ roomManager' = roomManager
                  /\ socketRooms' = socketRooms
                  /\ toClient' = toClient]_vars

\* A and B are in one room, A's undo has been handled: the packet is on its
\* way to B and nothing is on its way to A.
C14_Witness ==
  /\ getUserRoom(roomManager, "A") # <<>>
  /\ getUserRoom(roomManager, "A") = getUserRoom(roomManager, "B")
  /\ toServer["A"] = <<>>
  /\ toClient["A"] = <<>>
  /\ toClient["B"] # <<>>
  /\ Head(toClient["B"]).type = "undo"

\* The operations a DrawingStateManager holds.
AllOps(d) ==
  {d.operationHistory[i] : i \in 1..Len(d.operationHistory)}
    \cup {d.redoStack[i] : i \in 1..Len(d.redoStack)}

\* C15: whatever author a stroke-start or stroke-end packet declares, the
\* stroke the server puts in the stroke map, the stroke and the actor of the
\* Add operation it records, and the stroke it sends to the others carry the
\* id of the sending socket; and no stroke the server holds ever has an
\* author that is not the socket that committed it.
C15_AuthorOverwrite ==
  /\ [][\A c \in Sockets : \A type \in {"stroke-start", "stroke-end"} :
          (Handled(c, type) /\ getUserRoom(roomManager, c) # <<>>) =>
            LET roomId == getUserRoom(roomManager, c)[1]
                d == roomManager'.rooms[roomId].state
                stored == getStroke(d, Head(toServer[c]).body.id)
                operation == Last(d.operationHistory)
            IN  /\ stored # <<>> /\ stored[1].userId = c
                /\ operation.type = "add"
                /\ operation.userId = c
                /\ operation.stroke # <<>> /\ operation.stroke[1].userId = c
                /\ \A s \in Sockets :
                     toClient'[s] # toClient[s] =>
                       Last(toClient'[s]).body.userId = c]_vars
  /\ [](\A r \in DOMAIN roomManager.rooms :
          LET d == roomManager.rooms[r].state
          IN  /\ \A e \in MapEntries(d.strokes) : e.v.userId \in Sockets
              /\ \A operation \in AllOps(d) :
                   operation.type = "add" =>
                     operation.stroke[1].userId = operation.userId)

\* B sent the stroke that names A as its author: the room holds it with
\* author B, and so does the packet on its way to A.
C15_Witness ==
  /\ getUserRoom(roomManager, "A") = <<"default">>
  /\ getUserRoom(roomManager, "B") = <<"default">>
  /\ LET stored == getStroke(roomManager.rooms["default"].state, "s2")
     IN  stored # <<>> /\ stored[1].userId = "B"
  /\ toClient["A"] # <<>>
  /\ Head(toClient["A"]).type = "stroke-end"
  /\ Head(toClient["A"]).body.id = "s2"
  /\ Head(toClient["A"]).body.userId = "B"

\* C16: every stroke in a room's stroke map, and every stroke an Add
\* operation of the room carries, has at least 2 points; a tap is never
\* committed.
C16_MinimumStrokeLength ==
  \A r \in DOMAIN roomManager.rooms :
    LET d == roomManager.rooms[r].state
    IN  /\ \A e \in MapEntries(d.strokes) : Len(e.v.points) >= 2
        /\ \A operation \in AllOps(d) :
             (operation.type = "add" /\ operation.stroke # <<>>) =>
               Len(operation.stroke[1].points) >= 2

\* The id of the stroke an operation affects: <<id>>, or <<>> for a clear.
AffectedId(operation) ==
  IF operation.stroke # <<>> THEN <<operation.stroke[1].id>>
  ELSE operation.strokeId

\* C17: the undo (redo) packet the server sends to the rest of the room names
\* the stroke of the operation that undo (redo) popped for this request, and
\* no packet is sent when undo (redo) returned null.
C17_UndoRedoBroadcast ==
  [][\A c \in Sockets : \A type \in {"undo", "redo"} :
       (Handled(c, type) /\ getUserRoom(roomManager, c) # <<>>) =>
         LET roomId == getUserRoom(roomManager, c)[1]
             d == roomManager.rooms[roomId].state
             popped == IF type = "undo" THEN undo(d, c).ret ELSE redo(d, c).ret
         IN  IF popped = <<>>
             THEN toClient' = toClient
             ELSE \A s \in Sockets :
                    toClient'[s] # toClient[s] =>
                      <<Last(toClient'[s]).body>> = AffectedId(popped[1])]_vars

\* The step is a listener of the server taking a packet of socket c.
Served(c) == toServer[c] # <<>> /\ toServer'[c] = Tail(toServer[c])

\* The room on whose behalf the listener sends: the room joined, or the
\* current room of the sender.
OnBehalfOf(c) ==
  IF Head(toServer[c]).type = "join-room" THEN <<Head(toServer[c]).body>>
  ELSE getUserRoom(roomManager, c)

\* C20: whatever the server sends to the others on behalf of a room goes
\* only to sockets whose current room is that room at that moment.
C20_BroadcastIsolation ==
  [][\A c \in Sockets :
       Served(c) =>
         \A s \in Sockets \ {c} :
           toClient'[s] # toClient[s] =>
             getUserRoom(roomManager', s) = OnBehalfOf(c)]_vars

\* ------------------------------------- further claims on DrawingState

\* C21: removeStroke of an id that is not in the stroke map returns false,
\* undo on an empty history returns null and redo on an empty redoStack
\* returns null; each of them leaves the stroke map, the history and the
\* redoStack (a non-empty one too) as they were.
C21_AbsentTargets ==
  /\ [](\A userId \in Users :
          /\ \A strokeId \in StrokeIds :
               getStroke(manager, strokeId) = <<>> =>
                 removeStroke(manager, strokeId, userId, now, nextRef) =
                   [d |-> manager, ret |-> <<FALSE>>]
          /\ manager.operationHistory = <<>> =>
               undo(manager, userId) = [d |-> manager, ret |-> <<>>]
          /\ manager.redoStack = <<>> =>
               redo(manager, userId) = [d |-> manager, ret |-> <<>>])
  /\ [][now' = now =>
          /\ (lastCall'.op = "removeStroke" /\ lastCall'.ret = <<FALSE>>) =>
               manager' = manager
          /\ (lastCall'.op = "undo" /\ manager.operationHistory = <<>>) =>
               lastCall'.ret = <<>> /\ manager' = manager
          /\ (lastCall'.op = "redo" /\ manager.redoStack = <<>>) =>
               lastCall'.ret = <<>> /\ manager' = manager]_vars

\* removeStroke has just returned false while an undone operation sits on
\* the redoStack.
C21_Witness ==
  /\ lastCall.op = "removeStroke"
  /\ lastCall.ret = <<FALSE>>
  /\ Len(manager.redoStack) > 0
  /\ Len(manager.operationHistory) > 0

\* The entries of the stroke map of d that are older than maxAge at time t.
OlderThan(d, maxAge, t) ==
  {e \in MapEntries(d.strokes) : t - e.v.timestamp > maxAge}

\* C23: cleanupOldStrokes(maxAge) removes from the stroke map exactly the
\* strokes for which now minus timestamp is strictly greater than maxAge,
\* returns how many it removed, and leaves the history and the redoStack as
\* they were.
C23_AgeEviction ==
  /\ [](\A maxAge \in MaxAges :
          LET r == cleanupOldStrokes(manager, maxAge, now)
          IN  /\ MapEntries(r.d.strokes) =
                   MapEntries(manager.strokes) \ OlderThan(manager, maxAge, now)
              /\ Len(r.d.strokes) = Cardinality(MapEntries(r.d.strokes))
              /\ r.ret = Cardinality(OlderThan(manager, maxAge, now))
              /\ r.d.operationHistory = manager.operationHistory
              /\ r.d.redoStack = manager.redoStack)
  /\ [][(now' = now /\ lastCall'.op = "cleanupOldStrokes") =>
          LET call == lastCall'.ret[1]
              gone == OlderThan(manager, call.maxAge, now)
          IN  /\ MapEntries(manager'.strokes) = MapEntries(manager.strokes) \ gone
              /\ call.removedCount = Cardinality(gone)
              /\ manager'.operationHistory = manager.operationHistory
              /\ manager'.redoStack = manager.redoStack]_vars

\* cleanupOldStrokes(0) at time 1 has removed the stroke created at 0 and
\* kept the one created at 1, whose age equals maxAge; both Adds are still
\* in the history.
C23_Witness ==
  /\ lastCall.op = "cleanupOldStrokes"
  /\ lastCall.ret[1] = [maxAge |-> 0, removedCount |-> 1]
  /\ now = 1
  /\ Len(manager.strokes) = 1
  /\ manager.strokes[1].v.timestamp = 1
  /\ Len(manager.operationHistory) = 2

\* C24: whatever calls came before, when the history is not empty, undo
\* immediately followed by redo leaves the stroke map, the history and the
\* redoStack as they were before the undo.
C24_GeneralInverse ==
  (RedoRightAfterUndo /\ pre[1].manager.operationHistory # <<>>) =>
    /\ MapEntries(manager.strokes) = MapEntries(pre[1].manager.strokes)
    /\ manager.operationHistory = pre[1].manager.operationHistory
    /\ manager.redoStack = pre[1].manager.redoStack

\* C24 as amended: whatever calls came before, when the history is not
\* empty, undo immediately followed by redo leaves the history and the
\* redoStack as they were before the undo and redo returns the operation undo
\* returned; it leaves the stroke map as it was when the popped operation is
\* a Remove or a Clear, and when it is an Add whose stroke the map held under
\* its id before the undo.
C24_InverseWhereHeld ==
  (RedoRightAfterUndo /\ pre[1].manager.operationHistory # <<>>) =>
    LET before == pre[1].manager
        operation == Last(before.operationHistory)
    IN  /\ manager.operationHistory = before.operationHistory
        /\ manager.redoStack = before.redoStack
        /\ lastCall.ret = <<operation>>
        /\ (operation.type = "add" =>
              getStroke(before, operation.stroke[1].id) = operation.stroke)
             => MapEntries(manager.strokes) = MapEntries(before.strokes)

\* An Add whose stroke was in the map was undone and redone while another
\* operation sat on the redoStack.
C24_Witness ==
  /\ RedoRightAfterUndo
  /\ pre[1].manager.operationHistory # <<>>
  /\ Last(pre[1].manager.operationHistory).type = "add"
  /\ Len(pre[1].manager.redoStack) > 0
  /\ getStroke(pre[1].manager, Last(pre[1].manager.operationHistory).stroke[1].id)
       = Last(pre[1].manager.operationHistory).stroke
  /\ Len(manager.strokes) = 1

\* C22: handling a stroke-point or a cursor-move packet leaves the
\* RoomManager (every room's stroke map, history, redoStack and users, and
\* userRooms) as it was; the packet goes to the other participants of the
\* sender's room, and to nobody else, with the id of the sending socket as
\* userId.
C22_Ephemeral ==
  [][\A c \in Sockets : \A type \in {"stroke-point", "cursor-move"} :
       Handled(c, type) =>
         /\ roomManager' = roomManager
         /\ toClient'[c] = toClient[c]
         /\ \A s \in Sockets \ {c} :
              IF toClient'[s] # toClient[s]
              THEN /\ getUserRoom(roomManager, c) # <<>>
                   /\ getUserRoom(roomManager, s) = getUserRoom(roomManager, c)
                   /\ Last(toClient'[s]).type = type
                   /\ Last(toClient'[s]).body.userId = c
              ELSE s \notin closed =>
                     \/ getUserRoom(roomManager, c) = <<>>
                     \/ getUserRoom(roomManager, s) # getUserRoom(roomManager, c)]_vars

\* ------------------------------------------- further claims on the protocol

\* The Add operations a DrawingStateManager holds for stroke id.
AddsOf(d, id) ==
  {operation \in AllOps(d) :
     /\ operation.type = "add"
     /\ operation.stroke # <<>>
     /\ operation.stroke[1].id = id}

\* C25: a gesture leaves one Add operation at the authority: no room holds
\* two Add operations for the same stroke id, so one undo takes the gesture
\* back and the next undo meets the operation before it.
C25_OneGestureOneAdd ==
  \A r \in DOMAIN roomManager.rooms :
    LET d == roomManager.rooms[r].state
    IN  \A e \in MapEntries(d.strokes) : Cardinality(AddsOf(d, e.k)) <= 1

\* C26: on every client the stroke list and the redo stack are defined, so
\* the local undo and the local redo never fail.
C26_ViewWellFormed ==
  \A c \in Sockets :
    /\ canvas[c].redoStack # <<>>
    /\ ~Canvas_undo(canvas[c]).threw
    /\ ~Canvas_redo(canvas[c]).threw

====
